---- MODULE Spec2Model ----
(***************************************************************************)
(* A model of the asynchronous readiness-polling and mutation-coordination *)
(* layer of ab-test-utils (src/components/legacyComponents.js, whose       *)
(* lightweight poller, observer, loader and viewability tracker are        *)
(* repeated verbatim in src/utils.js).                                     *)
(*                                                                         *)
(* Everything runs on one event loop: an action is one handler run to      *)
(* completion (a call of the public function, or one timer or event        *)
(* callback).  Time is an integer clock `now`; a timer set with delay d    *)
(* at time t may fire at any time >= t + d (at t + d exactly in the runs of   *)
(* the observer and of events.send).                                *)
(***************************************************************************)
EXTENDS Integers, Sequences, FiniteSets

VARIABLES
  now,                         \* getNow(): the clock, in ms
  \* ---- full poller: one session of poller(elements, cb, options)
  elements,                    \* the conditions passed to poller()
  settings,                    \* wait, multiplier, timeout after the option merge
  called,                      \* poller() has been called
  pollingElements,             \* the PollingElements the call created
  successfullyPolledElements,  \* the session's success list
  cbCalls,                     \* number of invocations of cb (onAllSucceed)
  checkedTrue,                 \* elements that had a check evaluate true
  destroyed,                   \* handle.destroy(): "no" until it is called, then
                               \* whether the first call came before any success,
                               \* and the elements whose timer that call cleared
  destroyedIn                  \* "no" until handle.destroy() is called from inside
                               \* a timer callback of the session, then the caller
                               \* code that made the first such call

VARIABLES
  \* ---- lightweight poller: one call of pollerLite(conditions, callback, userOptions)
  conditions,                  \* the conditions passed to pollerLite()
  options,                     \* wait, multiplier, timeout after mergeObjects
  liteCalled,                  \* "no", "returned", or "threw" (the call raised)
  calledAt,                    \* the clock at the call
  timeout,                     \* the deadline (a Date), 0 for null
  successfulConditions,        \* results pushed so far, each named by its condition
  liteTimers,                  \* per condition, the timer set by pollForCondition
  callbackCalls,               \* number of invocations of callback
  callbackAt,                  \* the clock at the last invocation of callback, -1 if none
  truthyChecks                 \* conditions that had a check evaluate truthy

VARIABLES
  \* ---- mutation coordinator: the observer object
  active,                      \* observer.active: pairs [element, observer]
  observers,                   \* the MutationObservers connect() created, in order
  lastCall                     \* the last connect/disconnect call and its elements

VARIABLES
  \* ---- deduplicated resource loader: globalGetScript(url, options)
  legacyBrowser,               \* the browser gives script elements a readyState
  requests,                    \* window.ucGlobals.requests: url -> promise, 0 if unset
  promises,                    \* the promises created, each with its script element
  returned,                    \* per url, the promises the calls have returned
  loadCalls,                   \* per url, the number of calls made
  lateCall                     \* per url, a call was made after the promise settled

VARIABLES
  \* ---- viewability tracker: one call of viewabilityTracker(element, cb, options)
  userOptions,                 \* the options argument: undefined or an object
  stageHeight,                 \* the viewport height read at the call
  boundingBox,                 \* element.getBoundingClientRect(): top and height
  tracked,                     \* viewabilityTracker() has been called
  listener,                    \* throttledCheckElement is a scroll listener of window
  throttled,                   \* the state of throttledCheckElement
  visibleCalls,                \* number of invocations of cb (onVisible)
  inViewAtCall,                \* the element was in view at the call
  ticks,                       \* checkElement runs made by throttledCheckElement
  ticksInView                  \* those of them that found the element in view

VARIABLES
  \* ---- analytics dispatch: the events object and the page's analytics globals
  trackerName,                 \* events.trackerName: "false" or a tracker's name
  propertyId,                  \* events.propertyId: "false" or a tracking id
  analyticsReference,          \* events.analyticsReference: "ga" or "_gaq"
  eventCache,                  \* events.eventCache: the ids of the events sent once
  windowGa,                    \* window.ga: defined, has getAll, its trackers
  windowGaq,                   \* window._gaq is defined
  sends                        \* the send() calls made, each with its polling

VARIABLES
  \* ---- the pure functions, each applied once to arguments drawn at the start
  inViewArgs,                  \* options, bounding box and stageHeight
  inViewResult,                \* "none", or what elementIsInView returned
  mergeArgs,                   \* target and source
  mergeResult                  \* "none" (as a value), or what mergeObjects returned

pollerVars == <<elements, settings, called, pollingElements,
                successfullyPolledElements, cbCalls, checkedTrue, destroyed,
                destroyedIn>>

liteVars == <<conditions, options, liteCalled, calledAt, timeout,
              successfulConditions, liteTimers, callbackCalls, callbackAt,
              truthyChecks>>

observerVars == <<active, observers, lastCall>>

loaderVars == <<legacyBrowser, requests, promises, returned, loadCalls,
                lateCall>>

viewVars == <<userOptions, stageHeight, boundingBox, tracked, listener,
              throttled, visibleCalls, inViewAtCall, ticks, ticksInView>>

eventsVars == <<trackerName, propertyId, analyticsReference, eventCache,
                windowGa, windowGaq, sends>>

pureVars == <<inViewArgs, inViewResult, mergeArgs, mergeResult>>

vars == <<now, pollerVars, liteVars, observerVars, loaderVars, viewVars,
          eventsVars, pureVars>>

(* What the actions of one component leave alone: the other components.    *)
notPoller == <<liteVars, observerVars, loaderVars, viewVars, eventsVars,
  pureVars>>
notLite == <<pollerVars, observerVars, loaderVars, viewVars, eventsVars,
  pureVars>>
notObserver == <<pollerVars, liteVars, loaderVars, viewVars, eventsVars,
  pureVars>>
notLoader == <<now, pollerVars, liteVars, observerVars, viewVars, eventsVars,
  pureVars>>
notView == <<pollerVars, liteVars, observerVars, loaderVars, eventsVars,
  pureVars>>
notEvents == <<pollerVars, liteVars, observerVars, loaderVars, viewVars,
  pureVars>>
notPure == <<now, pollerVars, liteVars, observerVars, loaderVars, viewVars,
  eventsVars>>

----------------------------------------------------------------------------
(* Bounds of the model.                                                    *)
MaxNow == 3          \* the clock stops here
MaxConds == 2        \* longest condition list
MaxObservers == 2    \* connect() calls in one run
MaxGateNow == 3      \* the clock stops here in the runs of the observer
MaxLoadCalls == 3    \* globalGetScript() calls per url
MaxViewNow == 4      \* the clock stops here in the runs of the viewability tracker
MaxSends == 2        \* events.send() calls in one run
MaxEventsNow == 1    \* the clock stops here in the runs of events.send
MaxTrackers == 1     \* trackers the page creates
MaxCoord == 2        \* largest height and viewport height given to elementIsInView

(* The kinds of value a condition of the full poller can be: a function, a *)
(* non-empty string, another truthy value, or a falsy value.               *)
ConditionKinds == {"function", "string", "other", "falsy"}

(* The same for the lightweight poller, which looks at typeof only: the    *)
(* empty string is a string, the other falsy values are not.               *)
LiteConditionKinds == {"function", "string", "other", "falsy", "empty"}

(* What the environment answers when a condition is evaluated: the         *)
(* predicate returns truthy / falsy or raises; the selector matches / does *)
(* not match or is rejected by querySelector.                              *)
EnvAnswers == {"true", "false", "throw"}

(* Where the caller's code, running inside a timer callback of a session,  *)
(* calls handle.destroy(): nowhere, in the condition predicate, or in      *)
(* timeoutCallback.                                                        *)
DestroyCalls == {"none", "predicate", "timeoutCallback"}

Waits == {1}
Multipliers == {1, 2}
Timeouts == {0, 1}

SeqsUpTo(S, n) == UNION {[1..k -> S] : k \in 0..n}

Min(a, b) == IF a < b THEN a ELSE b

----------------------------------------------------------------------------
(* Full poller.                                                            *)

(* createPollingElement({elm, maxDuration}): startedAt and winTimeout are  *)
(* undefined (0 / FALSE) until poll() sets them.  pending, due and delay   *)
(* describe the timer winTimeout names and timers counts the timers of the *)
(* element that are set and have neither fired nor been cleared; state and *)
(* timeoutCalls record what the element has reported.                      *)
createPollingElement(elm, maxDuration) ==
  [elm |-> elm, maxDuration |-> maxDuration, startedAt |-> 0,
   winTimeout |-> FALSE, pending |-> FALSE, due |-> 0, delay |-> 0,
   timers |-> 0, state |-> "polling", timeoutCalls |-> 0]

(* expressionValidator(expr): "throw" for a falsy expression, the          *)
(* environment's answer for a function or a selector string, true for any  *)
(* other value.                                                            *)
expressionValidator(expr, answer) ==
  IF expr = "falsy" THEN "throw"
  ELSE IF expr \in {"function", "string"} THEN answer
  ELSE "true"

(* A destroy() that forgets clearTimeout.                                   *)
destroyElementKeepsTimer(e) == e

(* PollingElement.destroy(): clearTimeout(winTimeout) when winTimeout is   *)
(* set.                                                                    *)
destroyElement(e) ==
  IF e.winTimeout
  THEN [e EXCEPT !.pending = FALSE, !.due = 0, !.delay = 0,
                 !.timers = IF e.pending THEN @ - 1 ELSE @]
  ELSE e

(* A test that takes a maxDuration of 0 for a duration.                    *)
exceedsMaxDurationOfZero(maxDuration, startedAt, t) ==
  (startedAt + maxDuration) < t

(* exceedsMaxDuration in poll().                                           *)
exceedsMaxDuration(maxDuration, startedAt, t) ==
  IF maxDuration # 0 THEN (startedAt + maxDuration) < t ELSE FALSE

(* A poll() that lacks the `return false` of the timeout branch and falls  *)
(* through to setTimeout.                                                  *)
pollFallsThrough(e, delay, t) ==
  LET s == IF e.startedAt = 0 THEN t ELSE e.startedAt
      e1 == [e EXCEPT !.startedAt = s, !.winTimeout = TRUE, !.pending = TRUE,
                      !.due = t + delay, !.delay = delay, !.timers = @ + 1]
  IN IF exceedsMaxDuration(e.maxDuration, s, t)
     THEN [e1 EXCEPT !.timeoutCalls = Min(@ + 1, 2), !.state = "timedOut"]
     ELSE e1

(* PollingElement.poll(delay, ...) at time t: the element afterwards.      *)
poll(e, delay, t) ==
  LET s == IF e.startedAt = 0 THEN t ELSE e.startedAt
      e1 == [e EXCEPT !.startedAt = s]
  IN IF exceedsMaxDuration(e.maxDuration, s, t)
     THEN destroyElement([e1 EXCEPT !.timeoutCalls = @ + 1,
                                    !.state = "timedOut"])
     ELSE [e1 EXCEPT !.winTimeout = TRUE, !.pending = TRUE,
                     !.due = t + delay, !.delay = delay, !.timers = @ + 1]

(* A success callback that calls cb() without the length test.             *)
allPolledUntested(successList, conds) == TRUE

(* A success callback that compares against the wrong length.              *)
allPolledOffByOne(successList, conds) == Len(successList) = Len(conds) - 1

(* The success callback poller() passes to poll(): whether cb() is called  *)
(* once the element has been pushed.                                       *)
allPolled(successList, conds) == Len(successList) = Len(conds)

InitPoller ==
  /\ elements \in SeqsUpTo(ConditionKinds, MaxConds)
  /\ settings \in [wait : Waits, multiplier : Multipliers, timeout : Timeouts]
  /\ called = FALSE
  /\ pollingElements = << >>
  /\ successfullyPolledElements = << >>
  /\ cbCalls = 0
  /\ checkedTrue = {}
  /\ destroyed = [when |-> "no", cleared |-> {}]
  /\ destroyedIn = "no"

(* poller(elements, cb, options): create one element per condition and     *)
(* start polling it.                                                       *)
poller ==
  /\ ~called
  /\ called' = TRUE
  /\ pollingElements' =
       [i \in 1..Len(elements) |->
          poll(createPollingElement(elements[i], settings.timeout),
               settings.wait, now)]
  /\ UNCHANGED <<now, elements, settings, successfullyPolledElements,
                 cbCalls, checkedTrue, destroyed, destroyedIn, notPoller>>

(* A retry that forgets the backoff.                                       *)
nextDelayConstant(delay, multiplier) == delay

(* The delay the timer callback passes to poll(): delay * multiplier.      *)
nextDelay(delay, multiplier) == delay * multiplier

(* handle.destroy(): PollingElement.destroy() of every element.            *)
destroyAll(P) == [j \in DOMAIN P |-> destroyElement(P[j])]

(* The timer callback of element i fires.  The predicate of a function     *)
(* condition and timeoutCallback are code of the caller, which holds the   *)
(* handle and may call handle.destroy() there.                             *)
pollTimeout(i) ==
  /\ called
  /\ i \in DOMAIN pollingElements
  /\ pollingElements[i].pending
  /\ now >= pollingElements[i].due
  /\ \E answer \in EnvAnswers, inside \in DestroyCalls :
       LET e == pollingElements[i]
           fired == [e EXCEPT !.pending = FALSE, !.due = 0, !.delay = 0,
                              !.timers = @ - 1]
           r == expressionValidator(e.elm, answer)
           P0 == [pollingElements EXCEPT ![i] = fired]
           P == IF inside = "predicate" THEN destroyAll(P0) ELSE P0
           polled == poll(fired, nextDelay(e.delay, settings.multiplier), now)
           reports == polled.timeoutCalls # fired.timeoutCalls
       IN /\ inside = "predicate" => e.elm = "function"
          /\ inside = "timeoutCallback" => (r = "false" /\ reports)
          /\ destroyedIn' = IF inside # "none" /\ destroyedIn = "no"
                            THEN inside ELSE destroyedIn
          /\ CASE r = "throw" ->
                 /\ pollingElements' = [P EXCEPT ![i] = [fired EXCEPT !.state = "threw"]]
                 /\ UNCHANGED <<successfullyPolledElements, cbCalls, checkedTrue>>
            [] r = "true" ->
                 /\ pollingElements' =
                      [P EXCEPT ![i] = [fired EXCEPT !.state = "succeeded"]]
                 /\ successfullyPolledElements' = Append(successfullyPolledElements, i)
                 /\ checkedTrue' = checkedTrue \cup {i}
                 /\ cbCalls' = IF allPolled(successfullyPolledElements', elements)
                               THEN cbCalls + 1 ELSE cbCalls
            [] r = "false" ->
                 /\ pollingElements' =
                      IF inside = "timeoutCallback"
                      THEN destroyAll([P EXCEPT ![i] = polled])
                      ELSE [P EXCEPT ![i] = polled]
                 /\ UNCHANGED <<successfullyPolledElements, cbCalls, checkedTrue>>
  /\ UNCHANGED <<now, elements, settings, called, destroyed, notPoller>>

(* handle.destroy(), called between event-loop turns.                      *)
destroy ==
  /\ called
  /\ pollingElements' = destroyAll(pollingElements)
  /\ destroyed' =
       IF destroyed.when # "no" THEN destroyed
       ELSE [when |-> IF successfullyPolledElements = << >>
                      THEN "beforeSuccess" ELSE "afterSuccess",
             cleared |-> {i \in DOMAIN pollingElements :
                            pollingElements[i].pending}]
  /\ UNCHANGED <<now, elements, settings, called, successfullyPolledElements,
                 cbCalls, checkedTrue, destroyedIn, notPoller>>

TickPoller ==
  /\ now < MaxNow
  /\ now' = now + 1
  /\ UNCHANGED <<pollerVars, notPoller>>

NextPoller ==
  \/ poller
  \/ \E i \in 1..MaxConds : pollTimeout(i)
  \/ destroy
  \/ TickPoller

----------------------------------------------------------------------------
(* Lightweight poller (pollerLite; `poller` of src/utils.js is the same    *)
(* code).                                                                  *)

NoTimer == [pending |-> FALSE, due |-> 0, delay |-> 0, waitTime |-> 0]

(* timeout: new Date(getNow() + options.timeout), or null.                  *)
newDeadline(t, at) == IF t # 0 THEN at + t ELSE 0

(* An isTimedOut() that never reports the deadline as passed.              *)
isTimedOutNever(deadline, t) == FALSE

(* isTimedOut(): timeout && getNow() > timeout.                            *)
isTimedOut(deadline, t) == deadline # 0 /\ t > deadline

(* evaluateCondition(condition): the environment's answer for a function   *)
(* or a string (querySelector raises on the empty selector), true for      *)
(* every other type.                                                       *)
evaluateCondition(condition, answer) ==
  IF condition = "function" \/ condition = "string" THEN answer
  ELSE IF condition = "empty" THEN "throw"
  ELSE "true"

(* allConditionsPassed().                                                  *)
allConditionsPassed(successful, conds) == Len(successful) = Len(conds)

(* The part of the state pollForCondition works on.                        *)
LiteState ==
  [successfulConditions |-> successfulConditions, liteTimers |-> liteTimers,
   callbackCalls |-> callbackCalls, callbackAt |-> callbackAt,
   truthyChecks |-> truthyChecks, threw |-> FALSE]

(* A pollForCondition that sets the timer of the next check after a        *)
(* successful check too.                                                   *)
pollForConditionKeepsPolling(L, deadline, i, waitTime, skipWait, answer, t) ==
  IF isTimedOut(deadline, t) THEN L
  ELSE LET result == evaluateCondition(conditions[i], answer)
           d == IF skipWait THEN 0 ELSE waitTime
           timer == [pending |-> TRUE, due |-> t + d, delay |-> d,
                     waitTime |-> waitTime * options.multiplier]
       IN CASE result = "throw" -> [L EXCEPT !.threw = TRUE]
            [] result = "true" ->
                 LET pushed == Append(L.successfulConditions, i)
                     passed == allConditionsPassed(pushed, conditions)
                 IN [L EXCEPT !.successfulConditions = pushed,
                              !.truthyChecks = @ \cup {i},
                              !.callbackCalls = IF passed THEN @ + 1 ELSE @,
                              !.callbackAt = IF passed THEN t ELSE @,
                              !.liteTimers[i] = timer]
            [] result = "false" -> [L EXCEPT !.liteTimers[i] = timer]

(* pollForCondition(condition i, waitTime, skipWait) at time t, where the  *)
(* evaluation of the condition gives `answer`.                             *)
pollForCondition(L, deadline, i, waitTime, skipWait, answer, t) ==
  IF isTimedOut(deadline, t) THEN L
  ELSE LET result == evaluateCondition(conditions[i], answer)
       IN CASE result = "throw" -> [L EXCEPT !.threw = TRUE]
            [] result = "true" ->
                 LET pushed == Append(L.successfulConditions, i)
                     passed == allConditionsPassed(pushed, conditions)
                 IN [L EXCEPT !.successfulConditions = pushed,
                              !.truthyChecks = @ \cup {i},
                              !.callbackCalls = IF passed THEN @ + 1 ELSE @,
                              !.callbackAt = IF passed THEN t ELSE @]
            [] result = "false" ->
                 LET d == IF skipWait THEN 0 ELSE waitTime
                 IN [L EXCEPT !.liteTimers[i] =
                        [pending |-> TRUE, due |-> t + d, delay |-> d,
                         waitTime |-> waitTime * options.multiplier]]

(* The loop that starts polling: conditions i..N in order, stopping at the *)
(* first one whose evaluation raises.                                      *)
RECURSIVE startPolling(_, _, _, _)
startPolling(L, deadline, i, answers) ==
  IF i > Len(conditions) \/ L.threw THEN L
  ELSE startPolling(pollForCondition(L, deadline, i, options.wait, TRUE,
                                     answers[i], now),
                    deadline, i + 1, answers)

InitLite ==
  /\ conditions \in SeqsUpTo(LiteConditionKinds, MaxConds)
  /\ options \in [wait : Waits, multiplier : Multipliers, timeout : Timeouts]
  /\ liteCalled = "no"
  /\ calledAt = 0
  /\ timeout = 0
  /\ successfulConditions = << >>
  /\ liteTimers = [i \in 1..Len(conditions) |-> NoTimer]
  /\ callbackCalls = 0
  /\ callbackAt = -1
  /\ truthyChecks = {}

SetLite(L) ==
  /\ successfulConditions' = L.successfulConditions
  /\ liteTimers' = L.liteTimers
  /\ callbackCalls' = L.callbackCalls
  /\ callbackAt' = L.callbackAt
  /\ truthyChecks' = L.truthyChecks

(* pollerLite(conditions, callback, userOptions).                          *)
pollerLite ==
  /\ liteCalled = "no"
  /\ calledAt' = now
  /\ timeout' = newDeadline(options.timeout, now)
  /\ \E answers \in [1..Len(conditions) -> EnvAnswers] :
       LET L == startPolling(LiteState, timeout', 1, answers)
       IN /\ SetLite(L)
          /\ liteCalled' = IF L.threw THEN "threw" ELSE "returned"
  /\ UNCHANGED <<now, conditions, options, notLite>>

(* The timer of condition i fires: pollForCondition(condition, waitTime).  *)
liteTimeout(i) ==
  /\ i \in DOMAIN liteTimers
  /\ liteTimers[i].pending
  /\ now >= liteTimers[i].due
  /\ \E answer \in EnvAnswers :
       SetLite(pollForCondition([LiteState EXCEPT !.liteTimers[i] = NoTimer],
                                timeout, i, liteTimers[i].waitTime, FALSE,
                                answer, now))
  /\ UNCHANGED <<now, conditions, options, liteCalled, calledAt, timeout,
                 notLite>>

TickLite ==
  /\ now < MaxNow
  /\ now' = now + 1
  /\ UNCHANGED <<liteVars, notLite>>

NextLite ==
  \/ pollerLite
  \/ \E i \in 1..MaxConds : liteTimeout(i)
  \/ TickLite

----------------------------------------------------------------------------
(* Mutation coordinator (observer.connect / observer.disconnect; the same  *)
(* code in src/utils.js).  Here a due timer runs before the clock moves    *)
(* on: the event loop is idle between the events of the model.             *)

Elems == {"A", "B"}

(* What connect() and disconnect() are given: one HTMLElement, or a jQuery *)
(* collection of elements.                                                 *)
ElementArgs ==
  {[jquery |-> FALSE, items |-> <<e>>] : e \in Elems}
    \cup {[jquery |-> TRUE, items |-> <<"A", "B">>]}

(* What the runs give to connect(): element A, or the collection.          *)
ConnectArgs == {arg \in ElementArgs : arg.items[1] = "A"}

Throttles == {2}

Range(f) == {f[i] : i \in DOMAIN f}

(* connect(): the MutationObserver it creates, with the closure variable   *)
(* blockCb (undefined at first) and the timer that resets it.  lastCb is   *)
(* the time of the last invocation of cb, -1 before the first, mutationAt  *)
(* the arrival time of the mutation that invocation was given and          *)
(* lastElement the element that mutation was of.                           *)
newObserver(arg, throttle) ==
  [elements |-> Range(arg.items), targets |-> Range(arg.items),
   throttle |-> throttle, blockCb |-> FALSE,
   timer |-> [pending |-> FALSE, due |-> 0],
   lastCb |-> -1, mutationAt |-> -1, lastElement |-> "none"]

(* A connect that registers the first element of a collection only.        *)
registrationsFirstOnly(arg, obs) ==
  <<[element |-> arg.items[1], observer |-> obs]>>

(* The registrations connect() pushes: one per element of a collection, or *)
(* one for a single element.                                               *)
registrations(arg, obs) ==
  [i \in 1..Len(arg.items) |-> [element |-> arg.items[i], observer |-> obs]]

(* A disconnect that does not compare the elements.                        *)
removeObserversUnmatched(arg, registry) ==
  {registry[i].observer : i \in DOMAIN registry}

(* removeObservers(element) for every element of the argument: the         *)
(* observers whose disconnect() is called.                                 *)
removeObservers(arg, registry) ==
  {registry[i].observer :
     i \in {j \in DOMAIN registry : registry[j].element \in Range(arg.items)}}

(* MutationObserver.disconnect(): the observer stops observing all of its  *)
(* targets.                                                                *)
disconnectObserver(o) == [o EXCEPT !.targets = {}]

(* A callback with one gate per element: a mutation of an element other    *)
(* than the one that closed the gate passes.                               *)
onMutationGatePerElement(ob, e, t, raises) ==
  IF ~ob.blockCb \/ e # ob.lastElement
  THEN [ob EXCEPT !.blockCb = TRUE,
                  !.lastCb = t,
                  !.mutationAt = t,
                  !.lastElement = e,
                  !.timer = IF raises THEN @
                            ELSE [pending |-> TRUE, due |-> t + ob.throttle]]
  ELSE ob

(* The body of the MutationObserver callback for one mutation of element e *)
(* arriving at time t: with the gate open, close it, call                  *)
(* cb(elements, mutation) and, when cb has returned, set the timer; with   *)
(* the gate closed, nothing.                                               *)
onMutation(ob, e, t, raises) ==
  IF ~ob.blockCb
  THEN [ob EXCEPT !.blockCb = TRUE,
                  !.lastCb = t,
                  !.mutationAt = t,
                  !.lastElement = e,
                  !.timer = IF raises THEN @
                            ELSE [pending |-> TRUE, due |-> t + ob.throttle]]
  ELSE ob

(* A gate that makes up for the dropped mutations when it re-opens: it     *)
(* calls cb again, with a mutation that arrived earlier.                   *)
reopenGateAndFire(ob, t) ==
  [ob EXCEPT !.blockCb = FALSE, !.timer = [pending |-> FALSE, due |-> 0],
             !.lastCb = t]

(* The timer callback: blockCb = false.                                    *)
reopenGate(ob, t) ==
  [ob EXCEPT !.blockCb = FALSE, !.timer = [pending |-> FALSE, due |-> 0]]

InitObserver ==
  /\ active = << >>
  /\ observers = << >>
  /\ lastCall = [op |-> "none", targets |-> {}]

(* observer.connect(elements, cb, {throttle}).                             *)
connect ==
  /\ Len(observers) < MaxObservers
  /\ \E arg \in ConnectArgs, throttle \in Throttles :
       /\ observers' = Append(observers, newObserver(arg, throttle))
       /\ active' = active \o registrations(arg, Len(observers) + 1)
       /\ lastCall' = [op |-> "connect", targets |-> Range(arg.items)]
  /\ UNCHANGED <<now, notObserver>>

(* observer.disconnect(elements).                                          *)
disconnect ==
  /\ \E arg \in ElementArgs :
       /\ observers' =
            [o \in DOMAIN observers |->
               IF o \in removeObservers(arg, active)
               THEN disconnectObserver(observers[o]) ELSE observers[o]]
       /\ lastCall' = [op |-> "disconnect", targets |-> Range(arg.items)]
  /\ UNCHANGED <<now, active, notObserver>>

(* The MutationObserver callback of observer o runs for one mutation of    *)
(* the observed element e; cb returns or raises.                           *)
mutationCallback(o, e) ==
  /\ o \in DOMAIN observers
  /\ e \in observers[o].targets
  /\ \E raises \in BOOLEAN :
       observers' = [observers EXCEPT ![o] = onMutation(@, e, now, raises)]
  /\ UNCHANGED <<now, active, lastCall, notObserver>>

(* The timer set after cb fires: blockCb = false.                          *)
gateTimeout(o) ==
  /\ o \in DOMAIN observers
  /\ observers[o].timer.pending
  /\ now >= observers[o].timer.due
  /\ observers' = [observers EXCEPT ![o] = reopenGate(@, now)]
  /\ UNCHANGED <<now, active, lastCall, notObserver>>

TickObserver ==
  /\ now < MaxGateNow
  /\ \A o \in DOMAIN observers :
       ~(observers[o].timer.pending /\ observers[o].timer.due <= now)
  /\ now' = now + 1
  /\ UNCHANGED <<observerVars, notObserver>>

NextObserver ==
  \/ connect
  \/ disconnect
  \/ \E o \in 1..MaxObservers, e \in Elems : mutationCallback(o, e)
  \/ \E o \in 1..MaxObservers : gateTimeout(o)
  \/ TickObserver

----------------------------------------------------------------------------
(* Deduplicated resource loader (globalGetScript; the same code in         *)
(* src/utils.js).                                                          *)

Urls == {"x.js", "y.js"}

(* createGlobalPromise(): a pending promise and its script element, with   *)
(* onloadHander set as onload and onreadystatechange; net is what has      *)
(* become of the request for script.src.  script.readyState is undefined   *)
(* in current browsers and a string in legacy ones.                        *)
createGlobalPromise(url, legacy) ==
  [url |-> url, state |-> "pending", handlers |-> TRUE,
   readyState |-> IF legacy THEN "uninitialized" ELSE "undefined",
   net |-> "loading"]

(* onloadHander(_, isAbort), called with the script in the given           *)
(* readyState: the promise and the handlers afterwards.                    *)
onloadHander(p, isAbort, readyState) ==
  IF isAbort \/ readyState = "undefined" \/ readyState \in {"loaded", "complete"}
  THEN [p EXCEPT !.handlers = FALSE,
                 !.state = IF isAbort THEN "rejected" ELSE "resolved"]
  ELSE p

(* A cache test that only recognises promises that are still pending.      *)
isPromisePendingOnly(reqs, proms, url) ==
  reqs[url] # 0 /\ proms[reqs[url]].state = "pending"

(* isPromise: requests[url] instanceof Promise.                            *)
isPromise(reqs, proms, url) == reqs[url] # 0

InitLoader ==
  /\ legacyBrowser \in BOOLEAN
  /\ requests = [u \in Urls |-> 0]
  /\ promises = << >>
  /\ returned = [u \in Urls |-> {}]
  /\ loadCalls = [u \in Urls |-> 0]
  /\ lateCall = [u \in Urls |-> FALSE]

(* globalGetScript(url).                                                   *)
globalGetScript(url) ==
  /\ loadCalls[url] < MaxLoadCalls
  /\ loadCalls' = [loadCalls EXCEPT ![url] = @ + 1]
  /\ IF isPromise(requests, promises, url)
     THEN UNCHANGED <<requests, promises>>
     ELSE /\ promises' = Append(promises, createGlobalPromise(url, legacyBrowser))
          /\ requests' = [requests EXCEPT ![url] = Len(promises) + 1]
  /\ returned' = [returned EXCEPT ![url] = @ \cup {requests'[url]}]
  /\ lateCall' = [lateCall EXCEPT ![url] =
                    @ \/ (requests[url] # 0
                          /\ promises[requests[url]].state # "pending")]
  /\ UNCHANGED <<legacyBrowser, notLoader>>

(* The script of promise p has loaded and its load event is dispatched to  *)
(* script.onload; a legacy browser has set readyState before.              *)
scriptLoad(p) ==
  /\ p \in DOMAIN promises
  /\ promises[p].net = "loading"
  /\ \E rs \in IF legacyBrowser THEN {"loaded", "complete"} ELSE {"undefined"} :
       LET loaded == [promises[p] EXCEPT !.net = "loaded", !.readyState = rs]
       IN promises' =
            [promises EXCEPT ![p] = IF loaded.handlers
                                    THEN onloadHander(loaded, FALSE, rs)
                                    ELSE loaded]
  /\ UNCHANGED <<legacyBrowser, requests, returned, loadCalls, lateCall,
                 notLoader>>

(* A legacy browser reports progress to script.onreadystatechange while    *)
(* the script is still loading.                                            *)
scriptReadyStateChange(p) ==
  /\ legacyBrowser
  /\ p \in DOMAIN promises
  /\ promises[p].net = "loading"
  /\ promises[p].handlers
  /\ promises[p].readyState = "uninitialized"
  /\ promises' = [promises EXCEPT ![p] =
                    onloadHander([@ EXCEPT !.readyState = "loading"], FALSE,
                                 "loading")]
  /\ UNCHANGED <<legacyBrowser, requests, returned, loadCalls, lateCall,
                 notLoader>>

(* The load of the script of promise p fails: the browser dispatches an    *)
(* error event, for which the script has no handler.                       *)
scriptError(p) ==
  /\ p \in DOMAIN promises
  /\ promises[p].net = "loading"
  /\ promises' = [promises EXCEPT ![p].net = "failed"]
  /\ UNCHANGED <<legacyBrowser, requests, returned, loadCalls, lateCall,
                 notLoader>>

NextLoader ==
  \/ \E url \in Urls : globalGetScript(url)
  \/ \E p \in 1..Cardinality(Urls) : scriptLoad(p)
  \/ \E p \in 1..Cardinality(Urls) : scriptReadyStateChange(p)
  \/ \E p \in 1..Cardinality(Urls) : scriptError(p)

----------------------------------------------------------------------------
(* Viewability tracker (viewabilityTracker; the same code in src/utils.js). *)
(* The caller's cb is taken to return normally.                            *)

Tops == -1..3
Heights == {0, 1}
StageHeights == {2}
ViewThrottles == {2}

(* The options argument: undefined, or an object with any of the flags.    *)
UserOptions ==
  {[undefined |-> TRUE]} \cup
    [zeroHeightElementsNotInView : BOOLEAN, allElementHasToBeInView : BOOLEAN,
     removeOnView : BOOLEAN, throttle : ViewThrottles]

(* options = options || { ...defaults }; the default throttle of 250 ms is *)
(* scaled to the clock of the model.                                       *)
viewOptions(o) ==
  IF "undefined" \in DOMAIN o
  THEN [zeroHeightElementsNotInView |-> TRUE, allElementHasToBeInView |-> TRUE,
        removeOnView |-> TRUE, throttle |-> CHOOSE d \in ViewThrottles : TRUE]
  ELSE o

(* An elementIsInView that counts a box ending on the viewport's bottom    *)
(* edge as in view.                                                        *)
elementIsInViewInclusive(o, box, height) ==
  IF o.zeroHeightElementsNotInView /\ box.height = 0 THEN FALSE
  ELSE IF o.allElementHasToBeInView
       THEN box.top >= 0 /\ box.top + box.height <= height
       ELSE box.top <= height

(* elementIsInView(element, stageHeight).                                  *)
elementIsInView(o, box, height) ==
  IF o.zeroHeightElementsNotInView /\ box.height = 0 THEN FALSE
  ELSE IF o.allElementHasToBeInView
       THEN box.top >= 0 /\ box.top + box.height < height
       ELSE box.top <= height

(* The part of the state checkElement works on.                            *)
ViewState == [visibleCalls |-> visibleCalls, listener |-> listener]

(* A checkElement that leaves the scroll listener in place.                *)
checkElementKeepsListener(v, o, inView) ==
  IF inView THEN [v EXCEPT !.visibleCalls = @ + 1] ELSE v

(* A checkElement that does not test the visibility.                       *)
checkElementUnconditional(v, o, inView) ==
  [v EXCEPT !.visibleCalls = @ + 1,
            !.listener = IF o.removeOnView THEN FALSE ELSE @]

(* checkElement(), where elementIsInView() gives inView.                   *)
checkElement(v, o, inView) ==
  IF inView
  THEN [v EXCEPT !.visibleCalls = @ + 1,
                 !.listener = IF o.removeOnView THEN FALSE ELSE @]
  ELSE v

(* throttle(checkElement, delay) of lodash with its default options: the   *)
(* throttled function runs checkElement on the leading edge of a window of *)
(* `wait` ms, remembers a call made inside the window and runs             *)
(* checkElement for it on the trailing edge.  lastCallTime is -1 while     *)
(* undefined.                                                              *)
NoWindow == [pending |-> FALSE, due |-> 0]

newThrottled ==
  [timer |-> NoWindow, lastArgs |-> FALSE, lastCallTime |-> -1,
   lastInvokeTime |-> 0]

shouldInvoke(T, wait, t) ==
  \/ T.lastCallTime = -1
  \/ t - T.lastCallTime >= wait
  \/ t - T.lastCallTime < 0
  \/ t - T.lastInvokeTime >= wait

remainingWait(T, wait, t) ==
  LET timeWaiting == wait - (t - T.lastCallTime)
      maxLeft == wait - (t - T.lastInvokeTime)
  IN IF timeWaiting < maxLeft THEN timeWaiting ELSE maxLeft

(* throttledCheckElement() called at time t: the state afterwards and      *)
(* whether checkElement is run.                                            *)
callThrottled(T, wait, t) ==
  IF shouldInvoke(T, wait, t)
  THEN [T |-> [timer |-> [pending |-> TRUE, due |-> t + wait],
               lastArgs |-> FALSE, lastCallTime |-> t,
               lastInvokeTime |-> t],
        invoke |-> TRUE]
  ELSE [T |-> [T EXCEPT !.lastArgs = TRUE, !.lastCallTime = t,
                        !.timer = IF @.pending THEN @
                                  ELSE [pending |-> TRUE, due |-> t + wait]],
        invoke |-> FALSE]

(* timerExpired() at time t.                                               *)
timerExpired(T, wait, t) ==
  IF shouldInvoke(T, wait, t)
  THEN [T |-> [T EXCEPT !.timer = NoWindow, !.lastArgs = FALSE,
                        !.lastInvokeTime = IF T.lastArgs THEN t ELSE @],
        invoke |-> T.lastArgs]
  ELSE [T |-> [T EXCEPT !.timer = [pending |-> TRUE,
                                   due |-> t + remainingWait(T, wait, t)]],
        invoke |-> FALSE]

InitView ==
  /\ userOptions \in UserOptions
  /\ stageHeight \in StageHeights
  /\ boundingBox \in [top : Tops, height : Heights]
  /\ tracked = FALSE
  /\ listener = FALSE
  /\ throttled = newThrottled
  /\ visibleCalls = 0
  /\ inViewAtCall = FALSE
  /\ ticks = 0
  /\ ticksInView = 0

SetView(v) ==
  /\ visibleCalls' = v.visibleCalls
  /\ listener' = v.listener

(* A run of checkElement made by throttledCheckElement.                    *)
throttledTick(inView) ==
  /\ SetView(checkElement(ViewState, viewOptions(userOptions), inView))
  /\ ticks' = ticks + 1
  /\ ticksInView' = IF inView THEN ticksInView + 1 ELSE ticksInView

(* viewabilityTracker(element, cb, options): add the scroll listener, then *)
(* run checkElement once.                                                  *)
viewabilityTracker ==
  /\ ~tracked
  /\ tracked' = TRUE
  /\ LET inView == elementIsInView(viewOptions(userOptions), boundingBox,
                                   stageHeight)
     IN /\ inViewAtCall' = inView
        /\ SetView(checkElement([ViewState EXCEPT !.listener = TRUE],
                                viewOptions(userOptions), inView))
  /\ UNCHANGED <<now, userOptions, stageHeight, boundingBox, throttled, ticks,
                 ticksInView, notView>>

(* The page is scrolled: the element moves and a scroll event is           *)
(* dispatched to the listeners of window.                                  *)
scroll ==
  /\ \E top \in Tops :
       /\ boundingBox' = [boundingBox EXCEPT !.top = top]
       /\ IF listener
          THEN LET r == callThrottled(throttled,
                                      viewOptions(userOptions).throttle, now)
               IN /\ throttled' = r.T
                  /\ IF r.invoke
                     THEN throttledTick(elementIsInView(viewOptions(userOptions),
                                                        boundingBox', stageHeight))
                     ELSE UNCHANGED <<visibleCalls, listener, ticks, ticksInView>>
          ELSE UNCHANGED <<throttled, visibleCalls, listener, ticks, ticksInView>>
  /\ UNCHANGED <<now, userOptions, stageHeight, tracked, inViewAtCall, notView>>

(* The layout changes the height of the element; no scroll event.          *)
reflow ==
  /\ \E height \in Heights \ {boundingBox.height} :
       boundingBox' = [boundingBox EXCEPT !.height = height]
  /\ UNCHANGED <<now, userOptions, stageHeight, tracked, listener, throttled,
                 visibleCalls, inViewAtCall, ticks, ticksInView, notView>>

(* The timer of throttledCheckElement fires.                               *)
throttleTimeout ==
  /\ throttled.timer.pending
  /\ now >= throttled.timer.due
  /\ LET r == timerExpired(throttled, viewOptions(userOptions).throttle, now)
     IN /\ throttled' = r.T
        /\ IF r.invoke
           THEN throttledTick(elementIsInView(viewOptions(userOptions),
                                              boundingBox, stageHeight))
           ELSE UNCHANGED <<visibleCalls, listener, ticks, ticksInView>>
  /\ UNCHANGED <<now, userOptions, stageHeight, boundingBox, tracked,
                 inViewAtCall, notView>>

TickView ==
  /\ now < MaxViewNow
  /\ now' = now + 1
  /\ UNCHANGED <<viewVars, notView>>

NextView ==
  \/ viewabilityTracker
  \/ scroll
  \/ reflow
  \/ throttleTimeout
  \/ TickView

----------------------------------------------------------------------------
(* Analytics dispatch: the events object.                                  *)

(* The events a caller sends, each named by its category, action and label *)
(* (the eventID of sendOnce): the runs send one event, again and again.    *)
EventIds == {"e1"}

(* The tracker name a caller sets, and the property id it asks for, which  *)
(* is that of the page's second tracker.                                   *)
TrackerNames == {"gtm1"}
PropertyIds == {"UA-2"}

(* The trackers the page creates once analytics.js has loaded, in order;   *)
(* the runs stop after the first MaxTrackers of them.                      *)
PageTrackers ==
  <<[name |-> "t0", trackingId |-> "UA-1"],
    [name |-> "t1", trackingId |-> "UA-2"],
    [name |-> "t2", trackingId |-> "UA-3"]>>

(* The options of the pollerLite call made by send(), which passes none:   *)
(* wait 50 ms, multiplier 1.1 (as the fraction 11/10), no timeout.         *)
sendPollOptions ==
  [wait |-> [num |-> 50, den |-> 1], multiplier |-> [num |-> 11, den |-> 10],
   timeout |-> 0]

(* waitTime * multiplier on fractions of a millisecond.                    *)
waitTimes(waitTime, multiplier) ==
  [num |-> waitTime.num * multiplier.num, den |-> waitTime.den * multiplier.den]

(* The clock of these runs counts steps of 100 ms: a timer set at step t   *)
(* with a delay of 0 is due at t, one with a delay of up to 100 ms at t+1. *)
timerDue(t, delay) ==
  t + ((delay.num + 100 * delay.den - 1) \div (100 * delay.den))

NoPoll ==
  [pending |-> FALSE, due |-> 0, delay |-> [num |-> 0, den |-> 1],
   waitTime |-> [num |-> 0, den |-> 1]]

(* One call of send(): what it returned ("undefined", "false" when the     *)
(* event was cached, "threw" when it raised), the timer of its polling,    *)
(* whether a check of the detection predicate raised, the outcome of the   *)
(* last check, the dispatches made, and whether fire() ran while the       *)
(* analytics global was undefined.                                         *)
newSend(e, once) ==
  [event |-> e, sendOnce |-> once, returned |-> "undefined", timer |-> NoPoll,
   raised |-> FALSE, lastResult |-> "none", dispatched |-> 0,
   missing |-> FALSE]

(* window[self.analyticsReference] is defined.                             *)
analyticsGlobalDefined ==
  IF analyticsReference = "_gaq" THEN windowGaq ELSE windowGa.defined

(* fire(tracker): window._gaq.push([...]) or window.ga(`${tracker}.send`,  *)
(* ...), which raises a TypeError when the global is undefined.            *)
fire(S, tracker) ==
  IF analyticsGlobalDefined
  THEN [S EXCEPT !.dispatched = @ + 1]
  ELSE [S EXCEPT !.missing = TRUE, !.returned = "threw"]

(* The detection predicate handed to pollerLite: !!window._gaq, or whether *)
(* window.ga.getAll() returns trackers; "raised" is the TypeError of an    *)
(* undefined window.ga or getAll, which the catch discards, so that the    *)
(* predicate returns undefined.                                            *)
trackerDetected ==
  IF analyticsReference = "_gaq"
  THEN IF windowGaq THEN "true" ELSE "false"
  ELSE IF ~windowGa.defined \/ ~windowGa.getAll THEN "raised"
       ELSE IF Len(windowGa.trackers) > 0 THEN "true" ELSE "false"

(* The loop over the trackers: the index of the first one whose trackingId *)
(* is the property id, 0 if there is none.                                 *)
firstMatch(trackers, id) ==
  LET M == {i \in DOMAIN trackers : trackers[i].trackingId = id}
  IN IF M = {} THEN 0 ELSE CHOOSE i \in M : \A j \in M : i <= j

(* The callback handed to pollerLite: when the global has getAll, find the *)
(* tracker's name, store it in events.trackerName and fire.                *)
trackerDetectedCallback(S) ==
  IF analyticsReference = "_gaq" \/ ~windowGa.getAll
  THEN [session |-> S, trackerName |-> trackerName]
  ELSE LET trackers == windowGa.trackers
           m == firstMatch(trackers, propertyId)
           name == IF propertyId # "false"
                   THEN IF m = 0 THEN trackerName ELSE trackers[m].name
                   ELSE trackers[1].name
       IN [session |-> fire(S, name), trackerName |-> name]

(* pollForCondition(predicate, waitTime, skipWait) of the session of send  *)
(* S at time t (no timeout is set): a truthy result calls the callback, a  *)
(* falsy one sets the timer of the next check.                             *)
pollForTracker(S, waitTime, skipWait, t) ==
  LET result == trackerDetected
      C == [S EXCEPT !.lastResult = result,
                     !.raised = @ \/ result = "raised", !.timer = NoPoll]
      d == IF skipWait THEN [num |-> 0, den |-> 1] ELSE waitTime
  IN IF result = "true" THEN trackerDetectedCallback(C)
     ELSE [session |->
             [C EXCEPT !.timer =
                [pending |-> TRUE, due |-> timerDue(t, d), delay |-> d,
                 waitTime |-> waitTimes(waitTime, sendPollOptions.multiplier)]],
           trackerName |-> trackerName]

InitEvents ==
  /\ trackerName = "false"
  /\ propertyId = "false"
  /\ analyticsReference = "ga"
  /\ eventCache = << >>
  /\ windowGa = [defined |-> FALSE, getAll |-> FALSE, trackers |-> << >>]
  /\ windowGaq = FALSE
  /\ sends = << >>

(* events.setPropertyId(propertyId).                                       *)
setPropertyId ==
  /\ \E p \in PropertyIds : propertyId' = p
  /\ UNCHANGED <<now, trackerName, analyticsReference, eventCache, windowGa,
                 windowGaq, sends, notEvents>>

(* events.setTrackerName(trackerName).                                     *)
setTrackerName ==
  /\ \E n \in TrackerNames : trackerName' = n
  /\ UNCHANGED <<now, propertyId, analyticsReference, eventCache, windowGa,
                 windowGaq, sends, notEvents>>

(* events.useLegacyTracker().                                              *)
useLegacyTracker ==
  /\ analyticsReference' = "_gaq"
  /\ UNCHANGED <<now, trackerName, propertyId, eventCache, windowGa,
                 windowGaq, sends, notEvents>>

(* send() without the lookup in eventCache: a sendOnce call of an event    *)
(* already cached goes on to fire or to poll.                              *)
sendIgnoresCache ==
  /\ Len(sends) < MaxSends
  /\ \E e \in EventIds, once \in BOOLEAN :
       LET S == newSend(e, once)
       IN /\ eventCache' = IF once THEN Append(eventCache, e) ELSE eventCache
          /\ IF trackerName # "false"
             THEN /\ sends' = Append(sends, fire(S, trackerName))
                  /\ UNCHANGED trackerName
             ELSE LET R == pollForTracker(S, sendPollOptions.wait, TRUE, now)
                  IN /\ sends' = Append(sends, R.session)
                     /\ trackerName' = R.trackerName
  /\ UNCHANGED <<now, propertyId, analyticsReference, windowGa, windowGaq,
                 notEvents>>

(* events.send(category, action, label, options).                          *)
send ==
  /\ Len(sends) < MaxSends
  /\ \E e \in EventIds, once \in BOOLEAN :
       LET S == newSend(e, once)
       IN IF once /\ \E k \in DOMAIN eventCache : eventCache[k] = e
          THEN /\ sends' = Append(sends, [S EXCEPT !.returned = "false"])
               /\ UNCHANGED <<eventCache, trackerName>>
          ELSE /\ eventCache' = IF once THEN Append(eventCache, e)
                                ELSE eventCache
               /\ IF trackerName # "false"
                  THEN /\ sends' = Append(sends, fire(S, trackerName))
                       /\ UNCHANGED trackerName
                  ELSE LET R == pollForTracker(S, sendPollOptions.wait, TRUE,
                                               now)
                       IN /\ sends' = Append(sends, R.session)
                          /\ trackerName' = R.trackerName
  /\ UNCHANGED <<now, propertyId, analyticsReference, windowGa, windowGaq,
                 notEvents>>

(* The timer of the polling of send s fires:                               *)
(* pollForCondition(predicate, waitTime * multiplier).                     *)
sendPollTimeout(s) ==
  /\ s \in DOMAIN sends
  /\ sends[s].timer.pending
  /\ now >= sends[s].timer.due
  /\ LET R == pollForTracker(sends[s], sends[s].timer.waitTime, FALSE, now)
     IN /\ sends' = [sends EXCEPT ![s] = R.session]
        /\ trackerName' = R.trackerName
  /\ UNCHANGED <<now, propertyId, analyticsReference, eventCache, windowGa,
                 windowGaq, notEvents>>

(* The page's analytics snippet defines window.ga as a command queue.      *)
gaSnippet ==
  /\ ~windowGa.defined
  /\ windowGa' = [windowGa EXCEPT !.defined = TRUE]
  /\ UNCHANGED <<now, trackerName, propertyId, analyticsReference,
                 eventCache, windowGaq, sends, notEvents>>

(* analytics.js has loaded: window.ga has getAll.                          *)
gaLoaded ==
  /\ windowGa.defined
  /\ ~windowGa.getAll
  /\ windowGa' = [windowGa EXCEPT !.getAll = TRUE]
  /\ UNCHANGED <<now, trackerName, propertyId, analyticsReference,
                 eventCache, windowGaq, sends, notEvents>>

(* The page creates its next tracker.                                      *)
gaCreate ==
  /\ windowGa.getAll
  /\ Len(windowGa.trackers) < Min(MaxTrackers, Len(PageTrackers))
  /\ windowGa' = [windowGa EXCEPT !.trackers =
                    Append(@, PageTrackers[Len(@) + 1])]
  /\ UNCHANGED <<now, trackerName, propertyId, analyticsReference,
                 eventCache, windowGaq, sends, notEvents>>

(* The page defines window._gaq.                                           *)
gaqDefined ==
  /\ ~windowGaq
  /\ windowGaq' = TRUE
  /\ UNCHANGED <<now, trackerName, propertyId, analyticsReference,
                 eventCache, windowGa, sends, notEvents>>

(* The clock advances; a timer that is due fires first.                    *)
TickEvents ==
  /\ now < MaxEventsNow
  /\ \A s \in DOMAIN sends : sends[s].timer.pending => sends[s].timer.due > now
  /\ now' = now + 1
  /\ UNCHANGED <<eventsVars, notEvents>>

NextEvents ==
  \/ setPropertyId
  \/ setTrackerName
  \/ useLegacyTracker
  \/ send
  \/ \E s \in 1..MaxSends : sendPollTimeout(s)
  \/ gaSnippet
  \/ gaLoaded
  \/ gaCreate
  \/ gaqDefined
  \/ TickEvents

----------------------------------------------------------------------------
(* The pure functions: elementIsInView and mergeObjects, each applied once *)
(* to arguments drawn at the start of the run.                             *)

(* The arguments of elementIsInView: the two options it reads, the         *)
(* bounding box and the viewport height.                                   *)
InViewArgs ==
  [options : [zeroHeightElementsNotInView : BOOLEAN,
              allElementHasToBeInView : BOOLEAN],
   box : [top : (0 - MaxCoord)..(MaxCoord + 1), height : 0..MaxCoord],
   stageHeight : 0..MaxCoord]

(* elementIsInView(element, stageHeight) is called.                        *)
elementIsInViewCall ==
  /\ inViewResult = "none"
  /\ inViewResult' =
       IF elementIsInView(inViewArgs.options, inViewArgs.box,
                          inViewArgs.stageHeight)
       THEN "true" ELSE "false"
  /\ UNCHANGED <<inViewArgs, mergeArgs, mergeResult, notPure>>

(* JavaScript values: numbers, null, undefined, the empty array, and       *)
(* objects with their own enumerable properties; TypeError stands for a    *)
(* call that raised one, NotCalled for no result yet.                      *)
NoProps == [k \in {} |-> 0]
JsValue(kind, v, props) == [kind |-> kind, v |-> v, props |-> props]
JsNumber(n) == JsValue("number", n, NoProps)
JsNull == JsValue("null", 0, NoProps)
JsUndefined == JsValue("undefined", 0, NoProps)
JsArray == JsValue("array", 0, NoProps)
JsObject(props) == JsValue("object", 0, props)
TypeError == JsValue("TypeError", 0, NoProps)
NotCalled == JsValue("none", 0, NoProps)

(* The objects whose keys are among K and whose values are in V.           *)
ObjectsOver(K, V) == {JsObject(f) : f \in UNION {[D -> V] : D \in SUBSET K}}

(* The options objects handed to mergeObjects: keys a and b, whose values  *)
(* are numbers, null, an array, or an object with keys x and y.            *)
MergeLeaves == {JsNumber(1), JsNumber(2), JsNull}
MergeValues ==
  MergeLeaves \cup {JsArray} \cup ObjectsOver({"x", "y"}, MergeLeaves)
MergeObjects == ObjectsOver({"a", "b"}, MergeValues)

(* mergeObjects(target, source): Object.keys(source) raises on null and is *)
(* empty for a number and for the empty array; merged[key] raises when     *)
(* merged is null; typeof null is 'object'.                                *)
RECURSIVE mergeObjects(_, _)
mergeObjects(target, source) ==
  IF source.kind = "null" \/ source.kind = "undefined" THEN TypeError
  ELSE LET keys == DOMAIN source.props
           value(key) ==
             LET sourceValue == source.props[key]
                 targetValue == IF key \in DOMAIN target.props
                                THEN target.props[key] ELSE JsUndefined
                 isObject == targetValue.kind \in {"object", "null"}
             IN IF isObject THEN mergeObjects(targetValue, sourceValue)
                ELSE sourceValue
       IN IF keys = {} THEN target
          ELSE IF target.kind = "null" THEN TypeError
          ELSE IF \E key \in keys : value(key).kind = "TypeError"
               THEN TypeError
          ELSE JsObject([key \in DOMAIN target.props \cup keys |->
                           IF key \in keys THEN value(key)
                           ELSE target.props[key]])

(* mergeObjects(target, source) is called.                                 *)
mergeObjectsCall ==
  /\ mergeResult = NotCalled
  /\ mergeResult' = mergeObjects(mergeArgs.target, mergeArgs.source)
  /\ UNCHANGED <<inViewArgs, inViewResult, mergeArgs, notPure>>

IdleInView ==
  /\ inViewArgs = [options |-> [zeroHeightElementsNotInView |-> TRUE,
                                allElementHasToBeInView |-> TRUE],
                   box |-> [top |-> 0, height |-> 0], stageHeight |-> 0]
  /\ inViewResult = "none"

IdleMerge ==
  /\ mergeArgs = [target |-> JsObject(NoProps), source |-> JsObject(NoProps)]
  /\ mergeResult = NotCalled

IdlePure == IdleInView /\ IdleMerge

InitInView ==
  /\ inViewArgs \in InViewArgs
  /\ inViewResult = "none"

InitMerge ==
  /\ mergeArgs \in [target : MergeObjects, source : MergeObjects]
  /\ mergeResult = NotCalled

----------------------------------------------------------------------------
(* The specifications: one per component, the others idle.                 *)

IdlePoller ==
  /\ elements = << >>
  /\ settings = [wait |-> 1, multiplier |-> 1, timeout |-> 0]
  /\ called = FALSE
  /\ pollingElements = << >>
  /\ successfullyPolledElements = << >>
  /\ cbCalls = 0
  /\ checkedTrue = {}
  /\ destroyed = [when |-> "no", cleared |-> {}]
  /\ destroyedIn = "no"

IdleLite ==
  /\ conditions = << >>
  /\ options = [wait |-> 1, multiplier |-> 1, timeout |-> 0]
  /\ liteCalled = "no"
  /\ calledAt = 0
  /\ timeout = 0
  /\ successfulConditions = << >>
  /\ liteTimers = << >>
  /\ callbackCalls = 0
  /\ callbackAt = -1
  /\ truthyChecks = {}

IdleLoader ==
  /\ legacyBrowser = FALSE
  /\ requests = [u \in Urls |-> 0]
  /\ promises = << >>
  /\ returned = [u \in Urls |-> {}]
  /\ loadCalls = [u \in Urls |-> 0]
  /\ lateCall = [u \in Urls |-> FALSE]

IdleView ==
  /\ userOptions = [undefined |-> TRUE]
  /\ stageHeight = 2
  /\ boundingBox = [top |-> 0, height |-> 0]
  /\ tracked = FALSE
  /\ listener = FALSE
  /\ throttled = newThrottled
  /\ visibleCalls = 0
  /\ inViewAtCall = FALSE
  /\ ticks = 0
  /\ ticksInView = 0

IdleEvents == InitEvents

InitSpecPoller ==
  /\ now = 0 /\ InitPoller /\ IdleLite /\ InitObserver /\ IdleLoader /\ IdleView
  /\ IdleEvents /\ IdlePure

SpecPoller == InitSpecPoller /\ [][NextPoller]_vars

(* The full poller with a timeout on an event loop that keeps running: the *)
(* clock advances and a timer that is due fires.  The conditions are       *)
(* predicates, which are polled, and other truthy values.                  *)
InitFairSpecPoller ==
  /\ InitSpecPoller
  /\ settings.timeout > 0
  /\ \A i \in DOMAIN elements : elements[i] \in {"function", "other"}

FairSpecPoller ==
  /\ InitFairSpecPoller
  /\ [][NextPoller]_vars
  /\ WF_vars(TickPoller)
  /\ \A i \in 1..(MaxConds + 1) : WF_vars(pollTimeout(i))

(* A run of either poller: the caller starts a session of the full poller  *)
(* or of the lightweight poller.                                           *)
InitSpecPollers ==
  /\ now = 0
  /\ \/ InitPoller /\ IdleLite
     \/ IdlePoller /\ InitLite
  /\ InitObserver /\ IdleLoader /\ IdleView /\ IdleEvents /\ IdlePure

NextPollers ==
  \/ liteCalled = "no" /\ NextPoller
  \/ ~called /\ NextLite

SpecPollers == InitSpecPollers /\ [][NextPollers]_vars

InitSpecLite ==
  /\ now = 0 /\ InitLite /\ IdlePoller /\ InitObserver /\ IdleLoader /\ IdleView
  /\ IdleEvents /\ IdlePure

SpecLite == InitSpecLite /\ [][NextLite]_vars

(* The lightweight poller on an event loop that keeps running: the clock   *)
(* advances and a timer that is due fires.  The conditions are predicates, *)
(* which are polled, and other truthy values, which succeed at once.       *)
InitFairSpecLite ==
  /\ InitSpecLite
  /\ \A i \in DOMAIN conditions : conditions[i] \in {"function", "other"}

FairSpecLite ==
  /\ InitFairSpecLite
  /\ [][NextLite]_vars
  /\ WF_vars(TickLite)
  /\ \A i \in 1..(MaxConds + 1) : WF_vars(liteTimeout(i))

InitSpecObserver ==
  /\ now = 0 /\ InitObserver /\ IdlePoller /\ IdleLite /\ IdleLoader /\ IdleView
  /\ IdleEvents /\ IdlePure

SpecObserver == InitSpecObserver /\ [][NextObserver]_vars

InitSpecLoader ==
  /\ now = 0 /\ InitLoader /\ IdlePoller /\ IdleLite /\ InitObserver /\ IdleView
  /\ IdleEvents /\ IdlePure

SpecLoader == InitSpecLoader /\ [][NextLoader]_vars

InitSpecView ==
  /\ now = 0 /\ InitView /\ IdlePoller /\ IdleLite /\ InitObserver /\ IdleLoader
  /\ IdleEvents /\ IdlePure

SpecView == InitSpecView /\ [][NextView]_vars

InitSpecEvents ==
  /\ now = 0 /\ InitEvents /\ IdlePoller /\ IdleLite /\ InitObserver
  /\ IdleLoader /\ IdleView /\ IdlePure

IdleAll ==
  /\ now = 0 /\ IdlePoller /\ IdleLite /\ InitObserver /\ IdleLoader
  /\ IdleView /\ IdleEvents

InitSpecInView == IdleAll /\ InitInView /\ IdleMerge

SpecInView == InitSpecInView /\ [][elementIsInViewCall]_vars

InitSpecMerge == IdleAll /\ IdleInView /\ InitMerge

SpecMerge == InitSpecMerge /\ [][mergeObjectsCall]_vars

SpecEvents == InitSpecEvents /\ [][NextEvents]_vars

----------------------------------------------------------------------------
(* Claims about the full poller (checked under SpecPoller).                *)

(* C1: for a condition list of size N >= 1, onAllSucceed is invoked at     *)
(* most once per session; it has been invoked exactly once as soon as      *)
(* every one of the N conditions has had a check that evaluated true; and  *)
(* it is never invoked before each of the N elements has had such a check. *)
C1_SuccessCallbackOnce ==
  Len(elements) >= 1 =>
    /\ cbCalls <= 1
    /\ (checkedTrue = 1..Len(elements)) => cbCalls = 1
    /\ cbCalls > 0 => checkedTrue = 1..Len(elements)

C1_Witness ==
  /\ Len(elements) = 2
  /\ cbCalls = 1
  /\ successfullyPolledElements = <<2, 1>>

(* C2: once destroy() has been called from outside the session's callbacks *)
(* before any element has succeeded, onAllSucceed is never invoked,        *)
(* whatever timers were pending at the call and whatever the conditions    *)
(* evaluate to later.                                                      *)
C2_DestroyBeforeSuccess ==
  destroyed.when = "beforeSuccess" =>
    /\ cbCalls = 0
    /\ \A i \in DOMAIN pollingElements : ~pollingElements[i].pending

C2_Witness ==
  /\ destroyed.when = "beforeSuccess"
  /\ destroyed.cleared = {1, 2}
  /\ now = MaxNow

TimeoutReported(i) == pollingElements[i].state = "timedOut"

Rescheduled(i) ==
  /\ pollingElements[i].pending
  /\ pollingElements'[i].pending
  /\ pollingElements'[i].due # pollingElements[i].due

(* C3: for an element with maxDuration D > 0, timeoutCallback is invoked   *)
(* at most once; an element that has reported its timeout has invoked it   *)
(* exactly once, has no pending timer and stays that way (it never         *)
(* schedules another timer); and a check that evaluates false at a time    *)
(* later than startedAt + D is never followed by a new timer, it reports   *)
(* the timeout in the same step, so an element whose checks keep           *)
(* evaluating false reports it at its first check after startedAt + D.     *)
C3_TimeoutExactlyOnce ==
  /\ [](\A i \in DOMAIN pollingElements :
         /\ pollingElements[i].timeoutCalls <= 1
         /\ TimeoutReported(i) <=> pollingElements[i].timeoutCalls = 1
         /\ TimeoutReported(i) => ~pollingElements[i].pending)
  /\ [][\A i \in DOMAIN pollingElements :
          /\ TimeoutReported(i) =>
                /\ TimeoutReported(i)'
                /\ pollingElements'[i] = pollingElements[i]
          /\ Rescheduled(i) =>
                ~exceedsMaxDuration(settings.timeout,
                                    pollingElements'[i].startedAt, now)]_vars

C3_Witness ==
  \E i \in DOMAIN pollingElements :
    /\ settings.timeout > 0
    /\ TimeoutReported(i)
    /\ pollingElements[i].timeoutCalls = 1
    /\ ~pollingElements[i].pending

(* C14: when handle.destroy() is called while a timer callback of the     *)
(* session is running, from the condition predicate or from                *)
(* timeoutCallback, that callback does nothing more once destroy() has     *)
(* returned: onAllSucceed is not invoked, timeoutCallback is not invoked   *)
(* (again), and the step ends with no pending timer on any element.        *)
C14_DestroyInsideCallback ==
  [][destroyedIn' # destroyedIn =>
       /\ cbCalls' = cbCalls
       /\ \A j \in DOMAIN pollingElements : ~pollingElements'[j].pending
       /\ destroyedIn' = "predicate" =>
            \A j \in DOMAIN pollingElements :
              pollingElements'[j].timeoutCalls = pollingElements[j].timeoutCalls]_vars

(* C15: a session started with an empty condition list invokes            *)
(* onAllSucceed exactly once: never more than once, and once the call has  *)
(* returned and nothing of the session is pending any more, it has been    *)
(* invoked.                                                                *)
C15_EmptyListFires ==
  (called /\ elements = << >>) =>
    /\ cbCalls <= 1
    /\ (\A i \in DOMAIN pollingElements : ~pollingElements[i].pending)
          => cbCalls = 1

(* C17: no timer callback of a session ends by raising an error to the     *)
(* event loop: an invalid condition and a condition whose evaluation       *)
(* raises are reported otherwise.                                          *)
C17_NoErrorEscapes ==
  \A i \in DOMAIN pollingElements : pollingElements[i].state # "threw"

(* C22: with the timeout option 0 no element ever times out:              *)
(* timeoutCallback is never invoked, and an element that is still polling  *)
(* in a session nobody has destroyed has a pending timer, at every clock   *)
(* value.                                                                  *)
C22_ZeroTimeoutNeverTimesOut ==
  (called /\ settings.timeout = 0) =>
    \A i \in DOMAIN pollingElements :
      /\ pollingElements[i].timeoutCalls = 0
      /\ ~TimeoutReported(i)
      /\ (pollingElements[i].state = "polling"
            /\ destroyed.when = "no" /\ destroyedIn = "no")
           => pollingElements[i].pending

C22_Witness ==
  /\ settings.timeout = 0
  /\ now = MaxNow
  /\ Len(pollingElements) = 1
  /\ pollingElements[1].pending
  /\ pollingElements[1].delay = 4

(* C23: an element that has timed out is not in the success list, and in a *)
(* session where an element has timed out onAllSucceed has not been        *)
(* invoked, whatever the other elements did.                               *)
C23_TimedOutNeverSucceeds ==
  \A i \in DOMAIN pollingElements :
    TimeoutReported(i) =>
      /\ i \notin checkedTrue
      /\ \A k \in DOMAIN successfullyPolledElements :
           successfullyPolledElements[k] # i
      /\ cbCalls = 0

C23_Witness ==
  /\ Len(pollingElements) = 2
  /\ TimeoutReported(1)
  /\ pollingElements[2].state = "succeeded"
  /\ cbCalls = 0
  /\ now = MaxNow

(* C24: for an element with maxDuration D > 0, a check that runs at a time *)
(* strictly later than startedAt + D does not report success, and a        *)
(* timeout is only reported at a time strictly later than startedAt + D.   *)
C24_LazyTimeout ==
  [][\A i \in DOMAIN pollingElements :
       settings.timeout > 0 =>
         /\ (pollingElements[i].state = "polling"
               /\ pollingElements'[i].state = "succeeded")
              => ~(now > pollingElements[i].startedAt + settings.timeout)
         /\ (~TimeoutReported(i) /\ TimeoutReported(i)')
              => now > pollingElements'[i].startedAt + settings.timeout]_vars

(* C27: the first timer of an element is set wait ms after the poll call,  *)
(* and every timer set after a failed check has the delay of the timer     *)
(* before it times the multiplier, so the k-th check is scheduled with     *)
(* delay wait * multiplier^(k-1) and the delays never decrease.            *)
C27_Backoff ==
  [][\A i \in DOMAIN pollingElements' :
       /\ (~called /\ called') =>
            /\ pollingElements'[i].delay = settings.wait
            /\ pollingElements'[i].due = now + settings.wait
       /\ (called /\ Rescheduled(i)) =>
            /\ pollingElements'[i].delay
                 = pollingElements[i].delay * settings.multiplier
            /\ pollingElements'[i].due = now + pollingElements'[i].delay
            /\ pollingElements'[i].delay >= pollingElements[i].delay]_vars

C27_Witness ==
  /\ settings.multiplier = 2
  /\ Len(pollingElements) = 2
  /\ pollingElements[1].pending
  /\ pollingElements[1].delay = 4
  /\ pollingElements[2].pending
  /\ pollingElements[2].delay = 2

----------------------------------------------------------------------------
(* Claims about the lightweight poller (checked under SpecLite).           *)

(* C4: with timeout T > 0 the deadline is the clock at the call plus T,    *)
(* fixed for the whole session and shared by all conditions; callback is   *)
(* never invoked at a time strictly later than the deadline (so a          *)
(* condition that turns true only after it never causes the invocation);   *)
(* and a single condition that had a truthy check, which is only made up   *)
(* to the deadline, has caused exactly one invocation.                     *)
C4_SharedDeadline ==
  (liteCalled # "no" /\ options.timeout > 0) =>
    /\ timeout = calledAt + options.timeout
    /\ callbackAt <= timeout
    /\ (Len(conditions) = 1 /\ truthyChecks = {1}) => callbackCalls = 1

C4_Witness ==
  /\ options.timeout > 0
  /\ Len(conditions) = 1
  /\ callbackCalls = 1
  /\ callbackAt = timeout
  /\ now > timeout

(* C5: for every condition list, callback is invoked at most once per      *)
(* pollerLite call, and it has been invoked exactly once when every        *)
(* condition has succeeded (had a check that evaluated truthy).            *)
C5_CallbackExactlyOnce ==
  liteCalled # "no" =>
    /\ callbackCalls <= 1
    /\ (truthyChecks = 1..Len(conditions)) => callbackCalls = 1

(* C16: a condition whose value is falsy or empty is never counted as a   *)
(* success of the lightweight poller and never gets a timer for another    *)
(* check.                                                                  *)
C16_InvalidConditionFailsFast ==
  \A i \in DOMAIN conditions :
    conditions[i] \in {"falsy", "empty"} =>
      /\ i \notin truthyChecks
      /\ ~liteTimers[i].pending

(* C18: when callback has been invoked, the list it received holds one     *)
(* result per condition and the entry at position i is the result of       *)
(* condition i.                                                            *)
C18_ResultsInConditionOrder ==
  callbackCalls > 0 =>
    /\ Len(successfulConditions) = Len(conditions)
    /\ \A i \in DOMAIN conditions : successfulConditions[i] = i

TimerSet(i) ==
  /\ liteTimers'[i].pending
  /\ liteTimers'[i] # liteTimers[i]

(* C26: the retry of a condition after its first check is scheduled with   *)
(* zero delay, the next one with delay wait, and every later one with the  *)
(* delay of the one before it times the multiplier (0, wait,               *)
(* wait*multiplier, wait*multiplier^2, ...), for each condition on its     *)
(* own.                                                                    *)
C26_LiteSchedule ==
  [][\A i \in DOMAIN liteTimers :
       TimerSet(i) =>
         IF liteCalled = "no" THEN liteTimers'[i].delay = 0
         ELSE IF liteTimers[i].delay = 0
              THEN liteTimers'[i].delay = options.wait
              ELSE liteTimers'[i].delay = liteTimers[i].delay * options.multiplier]_vars

NoPendingTimer == \A i \in DOMAIN liteTimers : ~liteTimers[i].pending

(* C28: with timeout T > 0, once the deadline has passed no step of the    *)
(* session evaluates a condition, records a success, invokes callback or   *)
(* sets a timer: a timer that fires then is just gone, so at most one      *)
(* timer per condition fires after the deadline; and once the timers that  *)
(* are left are due within the run of the clock, the session eventually    *)
(* has no pending timer.                                                   *)
C28_LiteTerminates ==
  /\ [][(timeout # 0 /\ now > timeout) =>
          /\ successfulConditions' = successfulConditions
          /\ truthyChecks' = truthyChecks
          /\ callbackCalls' = callbackCalls
          /\ \A i \in DOMAIN liteTimers :
               liteTimers'[i] = liteTimers[i] \/ liteTimers'[i] = NoTimer]_vars
  /\ (/\ timeout # 0
      /\ now > timeout
      /\ \A i \in DOMAIN liteTimers :
           liteTimers[i].pending => liteTimers[i].due <= MaxNow)
       ~> NoPendingTimer

C28_Witness ==
  /\ timeout # 0
  /\ now > timeout
  /\ Len(conditions) = 2
  /\ truthyChecks = {}
  /\ liteTimers[1].pending
  /\ ~liteTimers[2].pending
  /\ callbackCalls = 0

----------------------------------------------------------------------------
(* Claims about both pollers (checked under SpecPollers).                  *)

(* C25: in both pollers the aggregate callback is invoked in the step of   *)
(* the check that completes the success list: every invocation happens in  *)
(* a step that adds the last outstanding success, and every step that adds *)
(* the last outstanding success invokes the callback, once.                *)
C25_CallbackInSameStep ==
  [][/\ cbCalls' # cbCalls =>
          /\ cbCalls' = cbCalls + 1
          /\ Len(successfullyPolledElements') = Len(successfullyPolledElements) + 1
          /\ Len(successfullyPolledElements') = Len(elements)
     /\ (Len(successfullyPolledElements) < Len(elements)
           /\ Len(successfullyPolledElements') = Len(elements))
          => cbCalls' = cbCalls + 1
     /\ callbackCalls' # callbackCalls =>
          /\ callbackCalls' = callbackCalls + 1
          /\ Len(successfulConditions') > Len(successfulConditions)
          /\ Len(successfulConditions') = Len(conditions)
     /\ (Len(successfulConditions) < Len(conditions)
           /\ Len(successfulConditions') = Len(conditions))
          => callbackCalls' = callbackCalls + 1]_vars

C25_Witness ==
  /\ Len(elements) = 2
  /\ Len(successfullyPolledElements) = 2
  /\ cbCalls = 1

C25_WitnessLite ==
  /\ Len(conditions) = 2
  /\ successfulConditions = <<2, 1>>
  /\ callbackCalls = 1
  /\ callbackAt > calledAt

----------------------------------------------------------------------------
(* Claims about the mutation coordinator (checked under SpecObserver).     *)

CbInvoked(o) == observers'[o].lastCb # observers[o].lastCb

(* C6: for one connect call with throttle W, any two invocations of cb are *)
(* at least W ms apart (so a burst arriving less than W ms after its first *)
(* mutation gives one invocation), and more than W ms after the last       *)
(* invocation the gate is open, so that a mutation arriving then gives a   *)
(* new invocation.                                                         *)
C6_ThrottleGate ==
  /\ [](\A o \in DOMAIN observers :
         (observers[o].lastCb # -1
            /\ now > observers[o].lastCb + observers[o].throttle)
           => ~observers[o].blockCb)
  /\ [][\A o \in DOMAIN observers :
          (CbInvoked(o) /\ observers[o].lastCb # -1)
            => observers'[o].lastCb - observers[o].lastCb >= observers[o].throttle]_vars

(* C7: after connect on a collection containing A and B, disconnect(A)     *)
(* leaves B observed: a disconnect call changes, for no observer, whether  *)
(* an element outside the call's targets is observed, so a later mutation  *)
(* of such an element still reaches the callback.                          *)
C7_DisconnectLeavesOthers ==
  [][lastCall'.op = "disconnect" =>
       \A o \in DOMAIN observers :
         observers'[o].targets \ lastCall'.targets
           = observers[o].targets \ lastCall'.targets]_vars

NotTarget(r) == r.element \notin lastCall'.targets

(* C8: after disconnect(targets) the active registry holds no registration *)
(* whose element is one of the targets, and every registration whose       *)
(* element is not among them is still there.                               *)
C8_RegistryAfterDisconnect ==
  [][lastCall'.op = "disconnect" => active' = SelectSeq(active, NotTarget)]_vars

(* C19: the gate is a throttle.  cb is only ever invoked by a mutation     *)
(* that arrives while the gate is open, in the step of its arrival and     *)
(* with that mutation, and every step that closes the gate is such an      *)
(* invocation; a step that leaves the gate closed or re-opens it invokes   *)
(* nothing, so a mutation dropped at a closed gate is never passed to cb   *)
(* and nothing is invoked at the re-opening.                               *)
C19_GateDropsMutations ==
  [][\A o \in DOMAIN observers :
       /\ CbInvoked(o) =>
            /\ ~observers[o].blockCb
            /\ observers'[o].blockCb
            /\ observers'[o].lastCb = now
            /\ observers'[o].mutationAt = now
       /\ (~observers[o].blockCb /\ observers'[o].blockCb) => CbInvoked(o)
       /\ observers[o].blockCb =>
            /\ observers'[o].lastCb = observers[o].lastCb
            /\ observers'[o].mutationAt = observers[o].mutationAt]_vars

C19_Witness ==
  \E o \in DOMAIN observers :
    /\ observers[o].lastCb = 0
    /\ observers[o].mutationAt = 0
    /\ ~observers[o].blockCb
    /\ ~observers[o].timer.pending
    /\ now = MaxGateNow

(* C20: connect on a collection of n elements appends n registrations to   *)
(* observer.active, one per element in order, all with the observer that   *)
(* call created; connect on a single element appends one; the              *)
(* registrations that were there before stay as they were.                 *)
C20_ConnectRegistrations ==
  [][Len(observers') # Len(observers) =>
       LET n == Cardinality(lastCall'.targets)
       IN /\ Len(observers') = Len(observers) + 1
          /\ Len(active') = Len(active) + n
          /\ SubSeq(active', 1, Len(active)) = active
          /\ {active'[k].element : k \in (Len(active) + 1)..Len(active')}
               = lastCall'.targets
          /\ \A k \in (Len(active) + 1)..Len(active') :
               active'[k].observer = Len(observers')]_vars

C20_Witness ==
  /\ Len(observers) = 2
  /\ active = <<[element |-> "A", observer |-> 1],
                [element |-> "A", observer |-> 2],
                [element |-> "B", observer |-> 2]>>

Registered == {active[k].element : k \in DOMAIN active}

(* C30: a disconnect call none of whose elements has a registration leaves *)
(* the active registry as it is and changes, for no observer, what it      *)
(* observes or the state of its gate.                                      *)
C30_DisconnectUnmatched ==
  [][(lastCall' # lastCall /\ lastCall'.op = "disconnect"
        /\ lastCall'.targets \cap Registered = {})
       => (active' = active /\ observers' = observers)]_vars

C30_Witness ==
  /\ lastCall = [op |-> "disconnect", targets |-> {"B"}]
  /\ active = <<[element |-> "A", observer |-> 1]>>
  /\ observers[1].targets = {"A"}
  /\ observers[1].blockCb

----------------------------------------------------------------------------
(* Claims about the resource loader (checked under SpecLoader).            *)

LoadsOf(url) == {p \in DOMAIN promises : promises[p].url = url}

(* C9: at most one script load is ever initiated per url, and every call   *)
(* for one url returns the same promise, whether that promise is pending   *)
(* or settled at the call; calls for different urls get different promises *)
(* and separate loads.                                                     *)
C9_OneLoadPerUrl ==
  /\ \A u \in Urls :
       /\ Cardinality(LoadsOf(u)) <= 1
       /\ loadCalls[u] > 0 => returned[u] = LoadsOf(u) /\ Cardinality(returned[u]) = 1
  /\ \A u, v \in Urls : u # v => returned[u] \cap returned[v] = {}

C9_Witness ==
  /\ loadCalls["x.js"] = MaxLoadCalls
  /\ lateCall["x.js"]
  /\ loadCalls["y.js"] >= 2
  /\ ~lateCall["y.js"]
  /\ Len(promises) = 2

(* C10: the promise of a load is resolved when the script has loaded and   *)
(* rejected when the load has failed, so it is settled as soon as the load *)
(* attempt has ended.                                                      *)
C10_PromiseFollowsLoad ==
  \A p \in DOMAIN promises :
    /\ promises[p].net = "loaded" => promises[p].state = "resolved"
    /\ promises[p].net = "failed" => promises[p].state = "rejected"

(* C11: a call of globalGetScript(url) made once the load for url has      *)
(* failed leaves the cache entry and the loads as they are (no removal, no *)
(* replacement, no new load) and returns the cached promise, which is      *)
(* rejected.                                                               *)
C11_FailedLoadReplayed ==
  [][\A u \in Urls :
       (loadCalls'[u] # loadCalls[u]
          /\ requests[u] # 0 /\ promises[requests[u]].net = "failed")
         => /\ requests' = requests
            /\ promises' = promises
            /\ requests[u] \in returned'[u]
            /\ promises[requests[u]].state = "rejected"]_vars

----------------------------------------------------------------------------
(* Claims about the viewability tracker (checked under SpecView).          *)

(* C12: when the element is in view at the call of viewabilityTracker, cb  *)
(* is invoked inside the call itself, before any scroll event is handled;  *)
(* when it is out of view at the call, cb is not invoked by the call and   *)
(* stays uninvoked until throttledCheckElement has run checkElement at a   *)
(* moment when the element was in view.                                    *)
C12_InitialCheck ==
  /\ [](tracked =>
          /\ inViewAtCall => visibleCalls >= 1
          /\ (~inViewAtCall /\ ticksInView = 0) => visibleCalls = 0)
  /\ [][(~tracked /\ tracked') =>
          /\ visibleCalls' = IF inViewAtCall' THEN 1 ELSE 0
          /\ ticks' = 0
          /\ inViewAtCall' = elementIsInView(viewOptions(userOptions),
                                             boundingBox, stageHeight)]_vars

C12_Witness ==
  /\ tracked
  /\ ~inViewAtCall
  /\ ticks = 2
  /\ ticksInView = 1
  /\ visibleCalls = 1

C12_WitnessInView ==
  /\ tracked
  /\ inViewAtCall
  /\ ticks = 0
  /\ visibleCalls = 1

C13_WitnessRepeat ==
  /\ ~viewOptions(userOptions).removeOnView
  /\ inViewAtCall
  /\ ticksInView = 2
  /\ visibleCalls = 3

----------------------------------------------------------------------------
(* Claims about events.send (checked under SpecEvents).                    *)

(* C21: events.send never dispatches an event before the analytics global  *)
(* is available: fire() never runs in a state where                        *)
(* window[analyticsReference] is undefined.                                *)
C21_DispatchNeedsGlobal ==
  \A s \in DOMAIN sends : ~sends[s].missing

(* C29: with no tracker name known, a check of the detection predicate     *)
(* that raises is discarded and counts as not satisfied: the call of send  *)
(* does not raise, nothing is dispatched and the next check is scheduled   *)
(* with the next backoff delay; and once a check finds the tracker, the    *)
(* event has been dispatched exactly once.                                 *)
C29_RetryThenDispatchOnce ==
  \A s \in DOMAIN sends :
    LET S == sends[s]
        base == IF S.timer.delay.num = 0 THEN sendPollOptions.wait
                ELSE S.timer.delay
    IN /\ S.lastResult = "raised" =>
            /\ S.returned = "undefined"
            /\ S.dispatched = 0
            /\ S.timer.pending
            /\ S.timer.waitTime = waitTimes(base, sendPollOptions.multiplier)
       /\ (S.raised /\ S.lastResult = "true") => S.dispatched = 1
       /\ S.dispatched <= 1

----------------------------------------------------------------------------
(* Claims about the pure functions (checked under SpecInView, SpecMerge).  *)

(* C31: for all integer top, height and viewport height in the range, the  *)
(* element is not in view when zeroHeightElementsNotInView is set and the  *)
(* height is 0; otherwise with allElementHasToBeInView it is in view       *)
(* exactly when top >= 0 and top + height < viewportHeight, and without it *)
(* exactly when top <= viewportHeight.                                     *)
C31_InViewPredicate ==
  inViewResult # "none" =>
    LET o == inViewArgs.options
        top == inViewArgs.box.top
        height == inViewArgs.box.height
        viewportHeight == inViewArgs.stageHeight
        inView == inViewResult = "true"
    IN /\ (o.zeroHeightElementsNotInView /\ height = 0) => ~inView
       /\ (~(o.zeroHeightElementsNotInView /\ height = 0)
             /\ o.allElementHasToBeInView)
            => (inView <=> (top >= 0 /\ top + height < viewportHeight))
       /\ (~(o.zeroHeightElementsNotInView /\ height = 0)
             /\ ~o.allElementHasToBeInView)
            => (inView <=> top <= viewportHeight)

C31_Witness ==
  /\ inViewResult = "false"
  /\ inViewArgs.options.allElementHasToBeInView
  /\ inViewArgs.box.top = 1
  /\ inViewArgs.box.height = 1
  /\ inViewArgs.stageHeight = 2

C31_WitnessTopOnly ==
  /\ inViewResult = "true"
  /\ ~inViewArgs.options.allElementHasToBeInView
  /\ ~inViewArgs.options.zeroHeightElementsNotInView
  /\ inViewArgs.box.height = 0
  /\ inViewArgs.box.top = inViewArgs.stageHeight

(* The merge the documentation of mergeObjects describes: a key of source  *)
(* replaces that of target, except where both values are non-array objects, *)
(* which are merged key by key.                                            *)
RECURSIVE mergedPerKey(_, _)
mergedPerKey(target, source) ==
  JsObject([key \in DOMAIN target.props \cup DOMAIN source.props |->
     IF key \notin DOMAIN source.props THEN target.props[key]
     ELSE IF key \in DOMAIN target.props
               /\ target.props[key].kind = "object"
               /\ source.props[key].kind = "object"
          THEN mergedPerKey(target.props[key], source.props[key])
          ELSE source.props[key]])

(* C34: mergeObjects(target, source) returns an object in which every key  *)
(* of source takes priority over target, a key whose target value is a     *)
(* non-array object is merged key by key, and the keys of target absent    *)
(* from source keep their value, for every kind of target value, null      *)
(* included.                                                               *)
C34_SourceTakesPriority ==
  mergeResult # NotCalled =>
    mergeResult = mergedPerKey(mergeArgs.target, mergeArgs.source)

----------------------------------------------------------------------------
(* Further claims about the full poller (checked under SpecPoller).        *)

(* C32: startedAt of an element is the clock at its first poll invocation  *)
(* (the one made by poller()) and no later poll invocation of the element  *)
(* changes it, whatever the clock read at the first one, 0 included.       *)
C32_StartedAtFixed ==
  [][/\ (~called /\ called') =>
          \A i \in DOMAIN pollingElements' :
            pollingElements'[i].startedAt = now
     /\ \A i \in DOMAIN pollingElements :
          pollingElements'[i].startedAt = pollingElements[i].startedAt]_vars

(* C33: each PollingElement has at most one pending timer, and an element  *)
(* that has succeeded or timed out, and every element of a session whose   *)
(* handle was destroyed from outside the session's callbacks, has none.    *)
C33_TimerOwnership ==
  \A i \in DOMAIN pollingElements :
    LET e == pollingElements[i]
    IN /\ e.timers <= 1
       /\ e.pending <=> e.timers = 1
       /\ e.state \in {"succeeded", "timedOut"} => e.timers = 0
       /\ destroyed.when # "no" => e.timers = 0

C33_Witness ==
  /\ Len(pollingElements) = 2
  /\ pollingElements[1].state = "timedOut"
  /\ pollingElements[2].state = "polling"
  /\ destroyed.cleared = {2}
  /\ pollingElements[2].timers = 0

(* The entries element i has in the session's success list.                *)
SuccessesOf(i) ==
  {k \in DOMAIN successfullyPolledElements : successfullyPolledElements[k] = i}

(* C35: no element both reports success and invokes timeoutCallback, and   *)
(* an element that has done either is never checked again: it has no       *)
(* timer, and no later step changes it or its entries in the success list. *)
C35_SuccessOrTimeoutFinal ==
  /\ [](\A i \in DOMAIN pollingElements :
          /\ ~(SuccessesOf(i) # {} /\ pollingElements[i].timeoutCalls > 0)
          /\ pollingElements[i].state = "succeeded" <=> SuccessesOf(i) # {}
          /\ pollingElements[i].state = "timedOut"
               <=> pollingElements[i].timeoutCalls > 0)
  /\ [][\A i \in DOMAIN pollingElements :
          pollingElements[i].state \in {"succeeded", "timedOut"} =>
            /\ ~pollingElements[i].pending
            /\ pollingElements'[i] = pollingElements[i]
            /\ SuccessesOf(i)' = SuccessesOf(i)]_vars

C35_Witness ==
  /\ Len(pollingElements) = 2
  /\ settings.timeout = 1
  /\ pollingElements[1].state = "succeeded"
  /\ pollingElements[1].startedAt = 1
  /\ pollingElements[2].pending
  /\ now = MaxNow

----------------------------------------------------------------------------
(* Further claims about both pollers (checked under SpecPollers).          *)

(* The entries condition i has in the success list of the lightweight      *)
(* poller.                                                                 *)
LiteSuccessesOf(i) ==
  {k \in DOMAIN successfulConditions : successfulConditions[k] = i}

(* C36: in both pollers each condition has at most one entry in the        *)
(* session's success list, the list is never longer than the list of       *)
(* conditions, and a condition that has succeeded is never evaluated        *)
(* again: it has no timer and keeps its entry whatever it evaluates to     *)
(* later.                                                                  *)
C36_SuccessTally ==
  /\ [](/\ Len(successfullyPolledElements) <= Len(elements)
        /\ Len(successfulConditions) <= Len(conditions)
        /\ \A i \in DOMAIN pollingElements : Cardinality(SuccessesOf(i)) <= 1
        /\ \A i \in DOMAIN conditions : Cardinality(LiteSuccessesOf(i)) <= 1)
  /\ [][/\ \A i \in DOMAIN pollingElements :
             SuccessesOf(i) # {} =>
               /\ ~pollingElements[i].pending
               /\ pollingElements'[i] = pollingElements[i]
               /\ SuccessesOf(i)' = SuccessesOf(i)
        /\ \A i \in DOMAIN conditions :
             LiteSuccessesOf(i) # {} =>
               /\ ~liteTimers[i].pending
               /\ liteTimers'[i] = liteTimers[i]
               /\ LiteSuccessesOf(i)' = LiteSuccessesOf(i)]_vars

C36_Witness ==
  /\ Len(conditions) = 2
  /\ successfulConditions = <<2>>
  /\ liteTimers[1].pending
  /\ liteTimers[1].delay = 2
  /\ now = MaxNow

C36_WitnessPoller ==
  /\ Len(elements) = 2
  /\ successfullyPolledElements = <<1>>
  /\ pollingElements[2].pending
  /\ pollingElements[2].delay = 2
  /\ now = MaxNow

----------------------------------------------------------------------------
(* Further claims about the mutation coordinator (checked under            *)
(* SpecObserver).                                                          *)

(* C37: the gate belongs to the connect call, not to the element: less     *)
(* than throttle ms after an invocation of cb no mutation of any element   *)
(* of the call invokes cb, whichever element caused that invocation; and   *)
(* the gates of different connect calls are independent: an invocation by  *)
(* one call changes nothing in another, and a mutation that finds the gate *)
(* of its own call open invokes cb whatever the other gates are.           *)
C37_GateScope ==
  /\ [](\A o \in DOMAIN observers : \A e \in observers[o].targets :
          \A raises \in BOOLEAN :
            ~observers[o].blockCb =>
              onMutation(observers[o], e, now, raises).lastCb = now)
  /\ [][\A o \in DOMAIN observers :
          /\ (observers[o].lastCb # -1
                /\ now < observers[o].lastCb + observers[o].throttle)
               => /\ observers'[o].lastCb = observers[o].lastCb
                  /\ observers'[o].lastElement = observers[o].lastElement
          /\ CbInvoked(o) =>
               \A p \in DOMAIN observers \ {o} : observers'[p] = observers[p]]_vars

C37_Witness ==
  /\ Len(observers) = 2
  /\ observers[1].targets = {"A", "B"}
  /\ observers[1].lastElement = "A"
  /\ observers[1].lastCb = 1
  /\ observers[1].blockCb
  /\ observers[2].targets = {"A"}
  /\ observers[2].lastElement = "A"
  /\ observers[2].lastCb = 2
  /\ now = 2

(* C38: whenever the gate of a connect call is closed, the timer that      *)
(* re-opens it is pending (so that the gate opens again after every        *)
(* invocation of cb, one in which cb raises included).                     *)
C38_ClosedGateHasTimer ==
  \A o \in DOMAIN observers :
    observers[o].blockCb => observers[o].timer.pending

----------------------------------------------------------------------------
(* Termination of the full poller (checked under FairSpecPoller).          *)

Undestroyed == destroyed.when = "no" /\ destroyedIn = "no"

(* C39: in a session with timeout D > 0 that is never destroyed, every     *)
(* element eventually has succeeded or timed out and holds no timer; the   *)
(* clock of the model stops, so this is stated for an element whose        *)
(* deadline has passed and whose timer is due within the run of the clock  *)
(* (a startedAt of 0 is recorded anew by the next poll, so its deadline    *)
(* has not passed yet).                                                    *)
C39_PollerTerminates ==
  \A i \in 1..(MaxConds + 1) :
    (/\ called
     /\ i \in DOMAIN pollingElements
     /\ settings.timeout > 0
     /\ pollingElements[i].startedAt # 0
     /\ now > pollingElements[i].startedAt + settings.timeout
     /\ pollingElements[i].pending
     /\ pollingElements[i].due <= MaxNow)
      ~> (\/ ~Undestroyed
          \/ /\ i \in DOMAIN pollingElements
             /\ pollingElements[i].state \in {"succeeded", "timedOut"}
             /\ ~pollingElements[i].pending)

----------------------------------------------------------------------------
(* The calls of send made with sendOnce for event e, in order.             *)
OnceSendsOf(e) ==
  {s \in DOMAIN sends : sends[s].sendOnce /\ sends[s].event = e}

RECURSIVE dispatchedBy(_)
dispatchedBy(calls) ==
  IF calls = {} THEN 0
  ELSE LET s == CHOOSE x \in calls : TRUE
       IN sends[s].dispatched + dispatchedBy(calls \ {s})

(* C40: over the calls of send made with sendOnce, an event is dispatched  *)
(* to the analytics library at most once; the second and every later such  *)
(* call for it returns false, dispatches nothing and starts no polling.    *)
C40_SendOnceDispatchesOnce ==
  \A e \in EventIds :
    /\ dispatchedBy(OnceSendsOf(e)) <= 1
    /\ \A s, u \in OnceSendsOf(e) :
         s < u => /\ sends[u].returned = "false"
                  /\ sends[u].dispatched = 0
                  /\ sends[u].timer = NoPoll
                  /\ sends[u].lastResult = "none"

(* A first sendOnce call has dispatched the event and a second one for the *)
(* same event has returned false.                                          *)
C40_Witness ==
  \E e \in EventIds : \E s, u \in OnceSendsOf(e) :
    /\ s < u
    /\ sends[s].dispatched = 1
    /\ sends[u].returned = "false"

(* The first sendOnce call is still polling for the tracker when the       *)
(* second one returns false.                                               *)
C40_WitnessPolling ==
  \E e \in EventIds : \E s, u \in OnceSendsOf(e) :
    /\ s < u
    /\ sends[s].timer.pending
    /\ sends[u].returned = "false"

====
